---- MODULE Spec2Model ----
(***************************************************************************)
(* Model of la-tripods.cc: the Optimize() search loop over the tripod      *)
(* index, the Score ordering, and the per-row capacity book.               *)
(*                                                                         *)
(* Representation:                                                         *)
(*   - a uint64_t tripod bitmask is the set of its set bit positions,      *)
(*     numbered 1..64 (bit t-1 of the mask  <->  tripod id t);             *)
(*   - items are numbered 1..Len(items) here; the program prints the       *)
(*     0-based number, which is what `out` records;                        *)
(*   - Assignment::item keeps the program's values: -1 (none) or the       *)
(*     0-based cursor into the candidate vector v.                         *)
(***************************************************************************)
EXTENDS Integers, Sequences, FiniteSets, TLC

\* ---------------------------------------------------------------- constants
kRows == 6
kTripods == 3
\* width of Score::tripods (uint64_t)
MaskBits == 64
\* width of the int literal in 1 << (tripod - 1)
IntBits == 32
\* uint8_t modulus (Book entries)
U8 == 256
\* half-word modulus used to write a uint32_t as <<high 16 bits, low 16 bits>>
U16 == 65536

\* ---------------------------------------------------------------- bounds
MaxItems == 2
MaxTrait == 3
MaxCost == 1
MaxRow == 1
MaxCap == 2
\* how far below 0 and above tripods.size() a priority count may lie
MaxPrioExcess == 1
\* how many tripod ids above the width of int the wide catalogs use
MaxHigh == 1

VARIABLES
  items,         \* vector<Item>& items: row, cost, tripods[kTripods], used
  prio_tripods,  \* int prio_tripods
  book0,         \* the caller's Book (Optimize works on a by-value copy)
  tripods,       \* vector<vector<Item*>> tripods: the index, item numbers
  book,          \* Optimize's copy of the book
  assignments,   \* vector<Assignment> assignments
  best_score,    \* Score best_score
  out,           \* what was written to cout: one record per "New best assignment"
  build          \* what each of the three unchecked shifts of this build does
                 \* with a count that is out of range for the shifted type
                 \* (undefined in C++): prio for line 70, test for line 93,
                 \* item for line 112

vars == <<items, prio_tripods, book0, tripods, book, assignments, best_score, out, build>>

\* ---------------------------------------------------------------- helpers
Max(S) == CHOOSE x \in S : \A y \in S : y <= x

Last(s) == s[Len(s)]

\* Resize, but one element is appended whatever n is
ResizeByOne(asg, n, value) == Append(asg, value)

\* vector::resize(n, value): the first n elements, copies of value appended
\* while the vector is shorter than n
Resize(asg, n, value) ==
  [j \in 1..n |-> IF j <= Len(asg) THEN asg[j] ELSE value]

\* ---------------------------------------------------------------- Score
\* Score{} : tripods = 0, cost = 0
EmptyScore == [tripods |-> {}, cost |-> 0]

\* Assignment{} : item = size_t(-1), score = Score{}
NoAssignment == [item |-> -1, score |-> EmptyScore]

\* A shift whose count is negative or not below the width of the shifted type
\* is undefined.  What comes out of one shift expression of a build is either
\*   "wrap": the count is taken modulo the width (the x86-64 and AArch64
\*           shift instructions), or
\*   "zero": every bit is shifted out and the result is 0 (other
\*           instruction sets; a shift the compiler folds at compile time).
ShiftOutcomes == {"wrap", "zero"}

\* the three shifts are separate expressions, compiled separately: a build
\* has one outcome for each
Builds == [prio : ShiftOutcomes, test : ShiftOutcomes, item : ShiftOutcomes]

\* (uint64_t{1} << prio_tripods) - 1.  Defined for 0 <= prio_tripods < 64;
\* outside that range the shift gives 1 << (count mod 64) or 0, and 0 - 1 is
\* the all-ones mask.
PrioMask(p) ==
  IF 0 <= p /\ p < MaskBits THEN {t \in 1..MaskBits : t <= p}
  ELSE IF build.prio = "wrap" THEN {t \in 1..MaskBits : t <= p % MaskBits}
  ELSE 1..MaskBits

\* Score::tripod_count(mask) = popcount(tripods & mask)
tripod_count(x, mask) == Cardinality(x.tripods \cap mask)

\* the default argument mask = -1 converted to uint64_t: all 64 bits
AllMask == 1..MaskBits

\* -x.cost : cost is uint32_t, so the negation is taken modulo 2^32 and the
\* result is unsigned.  Written as <<high half, low half>>; 0 stays 0 and
\* c > 0 becomes 2^32 - c = (2^32 - 1) - (c - 1).
NegCost(c) ==
  IF c = 0 THEN <<0, 0>>
  ELSE <<(U16 - 1) - ((c - 1) \div U16), (U16 - 1) - ((c - 1) % U16)>>

\* the tuple built by the lambda `score` in BetterThan
ScoreKey(x, mask) ==
  <<tripod_count(x, mask), tripod_count(x, AllMask)>> \o NegCost(x.cost)

\* operator> of std::tuple: lexicographic
RECURSIVE TupleGreater(_, _)
TupleGreater(a, b) ==
  IF Len(a) = 0 THEN FALSE
  ELSE IF a[1] # b[1] THEN a[1] > b[1]
  ELSE TupleGreater(Tail(a), Tail(b))

\* Score::BetterThan
BetterThan(x, other, mask) == TupleGreater(ScoreKey(x, mask), ScoreKey(other, mask))

\* ---------------------------------------------------------------- index
\* the (item, slot) pairs in the order the two nested for loops visit them
SlotSeq(its) ==
  [n \in 1..(Len(its) * kTripods) |->
     <<((n - 1) \div kTripods) + 1, ((n - 1) % kTripods) + 1>>]

\* tripods.size() after the loops: the largest tripod id seen
IndexSize(its) ==
  Max({0} \cup {its[i].tripods[s] : i \in 1..Len(its), s \in 1..kTripods})

\* IndexStep, but an item is not appended to a list that already ends with it
IndexStepOnce(idx, its, pr) ==
  LET t     == its[pr[1]].tripods[pr[2]]
      grown == Resize(idx, Max({t, Len(idx)}), <<>>)
  IN  IF t = 0 THEN idx
      ELSE IF grown[t] # <<>> /\ Last(grown[t]) = pr[1] THEN grown
      ELSE [grown EXCEPT ![t] = Append(@, pr[1])]

\* the body of the inner for loop, for the slot pr = <<item, slot>>:
\*   if (!tripod) continue;
\*   if (tripods.size() < tripod) tripods.resize(tripod);
\*   tripods[tripod - 1].push_back(&item);
IndexStep(idx, its, pr) ==
  LET t     == its[pr[1]].tripods[pr[2]]
      grown == Resize(idx, Max({t, Len(idx)}), <<>>)
  IN  IF t = 0 THEN idx
      ELSE [grown EXCEPT ![t] = Append(@, pr[1])]

\* the two for loops from the n-th slot on
RECURSIVE IndexLoop(_, _, _)
IndexLoop(idx, its, n) ==
  IF n > Len(its) * kTripods THEN idx
  ELSE IndexLoop(IndexStep(idx, its, SlotSeq(its)[n]), its, n + 1)

\* the index: vector<vector<Item*>> tripods after the loops
BuildIndex(its) == IndexLoop(<<>>, its, 1)

\* ---------------------------------------------------------------- inputs
\* tripods[kTripods] of an item: ids first, in non-decreasing order, then 0s
\* (an aggregate initializer zero-fills the tail); an id may be listed twice
\* by an item that leaves a slot empty
TripodListsOver(ids) ==
  {s \in [1..kTripods -> {0} \cup ids] :
     /\ \A i \in 1..(kTripods - 1) : s[i + 1] = 0 \/ (s[i] # 0 /\ s[i] <= s[i + 1])
     /\ s[kTripods] # 0 => \A i \in 1..(kTripods - 1) : s[i] < s[i + 1]}

TripodLists == TripodListsOver(1..MaxTrait)

ItemValues ==
  [row : 0..MaxRow, cost : 0..MaxCost, tripods : TripodLists, used : {FALSE}]

Catalogs == UNION {[1..n -> ItemValues] : n \in 0..MaxItems}

Books ==
  {b \in [0..(kRows - 1) -> 0..MaxCap] : \A r \in 0..(kRows - 1) : r > MaxRow => b[r] = 0}

\* catalogs whose tripod ids reach the width of int and beyond (the catalog in
\* Main has ids up to 53): tripod 1 and the ids from 32 up; one row, no cost
HighIds == {1} \cup IntBits..(IntBits + MaxHigh)

HighItemValues ==
  [row : {0}, cost : {0}, tripods : TripodListsOver(HighIds), used : {FALSE}]

HighCatalogs == UNION {[1..n -> HighItemValues] : n \in 0..MaxItems}

HighBooks == {b \in Books : \A r \in 1..(kRows - 1) : b[r] = 0}

\* ---------------------------------------------------------------- loop body
\* the state the loop works on, as one record
Cur ==
  [items |-> items, book |-> book, assignments |-> assignments,
   best_score |-> best_score, out |-> out]

\* the state at the first loop head
Start(its, bk, idx) ==
  [items |-> its, book |-> bk,
   assignments |-> [k \in 1..Len(idx) |-> NoAssignment],
   best_score |-> EmptyScore, out |-> <<>>]

\* the uint64_t that (1 << (tripod - 1)) converts to, as a bit set: the shift
\* is done in int.  Bit 31 is the sign bit, so tripod = 32 sign-extends to
\* bits 31..63.  For tripod > 32 the count is out of range: the result is
\* 1 << ((tripod - 1) mod 32) when the shift wraps and 0 when it gives zero.
ShiftMask(tripod) ==
  IF tripod > IntBits /\ build.test = "zero" THEN {}
  ELSE LET n == (tripod - 1) % IntBits
       IN  IF n = IntBits - 1 THEN IntBits..MaskBits ELSE {n + 1}

\* Scan, but an item whose row has no slot left is not skipped
RECURSIVE ScanIgnoringBook(_, _, _, _)
ScanIgnoringBook(i, v, its, bk) ==
  IF i = Len(v) THEN i
  ELSE IF its[v[i + 1]].used THEN ScanIgnoringBook(i + 1, v, its, bk)
  ELSE i

\* do { ++a.item; if (a.item == v.size()) goto pop; } while (used || !book[row]);
\* called with the incremented cursor; returns Len(v) for "goto pop"
RECURSIVE Scan(_, _, _, _)
Scan(i, v, its, bk) ==
  IF i = Len(v) THEN i
  ELSE IF its[v[i + 1]].used \/ bk[its[v[i + 1]].row] = 0 THEN Scan(i + 1, v, its, bk)
  ELSE i

\* uint64_t{1} << (t - 1) for a tripod id t > 0, as a bit set.  t is a
\* uint8_t, so it may be above 64; the count is then out of range and the
\* result is 1 << ((t - 1) mod 64) when the shift wraps and 0 when it gives
\* zero.
ItemBit(t) ==
  IF t <= MaskBits THEN {t}
  ELSE IF build.item = "wrap" THEN {((t - 1) % MaskBits) + 1}
  ELSE {}

\* ItemMask, but only the first tripod of the item is recorded
ItemMaskFirstOnly(it) ==
  IF it.tripods[1] = 0 THEN {} ELSE ItemBit(it.tripods[1])

\* the bits one item sets: for (t : tripods) if (t) mask |= 1 << (t - 1)
ItemMask(it) ==
  UNION {ItemBit(it.tripods[s]) : s \in {sl \in 1..kTripods : it.tripods[sl] # 0}}

\* the item numbers with used set
UsedIn(its) == {i \in 1..Len(its) : its[i].used}

\* "Use item: #i" lines: the 0-based numbers of the items with used set
UsedItems(its) == {i - 1 : i \in {j \in 1..Len(its) : its[j].used}}

\* Advance, but the cursor of a frame that is re-entered stays where it was
AdvanceStuck(item) == IF item = -1 THEN 0 ELSE item

\* ++a.item, the first time round the do-while
Advance(item) == item + 1

\* Unuse, but the flag is left set
UnuseKept(its, n) == its

\* v[a.item]->used = false
Unuse(its, n) == [its EXCEPT ![n].used = FALSE]

\* Release, but the row's count is left as it was
ReleaseNone(bk, r) == bk

\* ++book[row]  (uint8_t)
Release(bk, r) == [bk EXCEPT ![r] = (@ + 1) % U8]

\* v[a.item]->used = true
Use(its, n) == [its EXCEPT ![n].used = TRUE]

\* --book[row]  (uint8_t)
Take(bk, r) == [bk EXCEPT ![r] = (@ + U8 - 1) % U8]

\* PrioCutoff, but the branch is never taken (the branch removed, as the
\* comment in it suggests)
PrioCutoffRemoved(score, p, tripod) == FALSE

\* (a.score.tripods & prio_mask) != prio_mask && tripod > prio_tripods
PrioCutoff(score, p, tripod) ==
  (score.tripods \cap PrioMask(p)) # PrioMask(p) /\ tripod > p

\* What one pass of the while loop finds, up to the end of the do-while.
\* redundancy / priority switch the two `else if` prunes on or off.
Frame(st, idx, p, redundancy, priority) ==
  LET asg    == st.assignments
      tripod == Len(asg)
      v      == idx[tripod]
      a      == asg[tripod]
      prev   == IF tripod > 1 THEN asg[tripod - 1] ELSE NoAssignment
      undo   == a.item # -1
      red    == /\ ~undo /\ redundancy
                /\ (prev.score.tripods \cap ShiftMask(tripod)) # {}
      pri    == /\ ~undo /\ ~red /\ priority
                /\ PrioCutoff(a.score, p, tripod)
      its1   == IF undo THEN Unuse(st.items, v[a.item + 1]) ELSE st.items
      bk1    == IF undo THEN Release(st.book, st.items[v[a.item + 1]].row) ELSE st.book
      cursor == Scan(Advance(a.item), v, its1, bk1)
  IN  [tripod |-> tripod, v |-> v, a |-> a, prev |-> prev, undo |-> undo,
       red |-> red, pri |-> pri, its1 |-> its1, bk1 |-> bk1, cursor |-> cursor]

\* Kind, but the score is compared after every selection, whatever the depth
KindCompareAlways(f, idx) ==
  IF f.red THEN "redundant"
  ELSE IF f.pri THEN "priority"
  ELSE IF f.cursor = Len(f.v) THEN "exhausted"
  ELSE "complete"

\* which way the pass goes, f being what Frame found
Kind(f, idx) ==
  IF f.red THEN "redundant"
  ELSE IF f.pri THEN "priority"
  ELSE IF f.cursor = Len(f.v) THEN "exhausted"
  ELSE IF f.tripod # Len(idx) THEN "push"
  ELSE "complete"

\* NewScore, but the item is added to the frame's own score
NewScoreFromOwn(a, prev, it) ==
  [cost |-> a.score.cost + it.cost,
   tripods |-> a.score.tripods \cup ItemMask(it)]

\* a.score after lines 109-113: the score of the frame before, plus the item
\* (what a.score was is overwritten)
NewScore(a, prev, it) ==
  [cost |-> prev.score.cost + it.cost,
   tripods |-> prev.score.tripods \cup ItemMask(it)]

\* the rest of the pass: goto pop, or everything after the do-while
Finish(st, f, idx, p) ==
  LET k == Kind(f, idx)
      popped == SubSeq(st.assignments, 1, f.tripod - 1)
  IN
  IF k \in {"redundant", "priority"} THEN
    [st EXCEPT !.assignments = popped]
  ELSE IF k = "exhausted" THEN
    [st EXCEPT !.items = f.its1, !.book = f.bk1, !.assignments = popped]
  ELSE
    LET n     == f.v[f.cursor + 1]
        it    == st.items[n]
        its2  == Use(f.its1, n)
        bk2   == Take(f.bk1, it.row)
        score == NewScore(f.a, f.prev, it)
        a2    == [item |-> f.cursor, score |-> score]
        asg2  == [st.assignments EXCEPT ![f.tripod] = a2]
    IN
    IF k = "push" THEN
      \* assignments.resize(tripods.size(), Assignment{.score = a.score})
      [st EXCEPT !.items = its2, !.book = bk2,
                 !.assignments = Resize(asg2, Len(idx), [item |-> -1, score |-> score])]
    ELSE IF BetterThan(score, st.best_score, PrioMask(p)) THEN
      [st EXCEPT !.items = its2, !.book = bk2, !.assignments = asg2,
                 !.best_score = score,
                 !.out = Append(@,
                    [prio  |-> tripod_count(score, PrioMask(p)),
                     total |-> tripod_count(score, AllMask),
                     cost  |-> score.cost,
                     tripods |-> score.tripods,
                     items |-> UsedItems(its2)])]
    ELSE
      [st EXCEPT !.items = its2, !.book = bk2, !.assignments = asg2]

\* one pass of the while loop
Iterate(st, idx, p, redundancy, priority) ==
  Finish(st, Frame(st, idx, p, redundancy, priority), idx, p)

\* ---------------------------------------------------------------- machine
\* the builds a run with priority count p over index idx can tell apart: a
\* shift that the run never evaluates with an out-of-range count comes out
\* the same on every build, and one outcome stands for all of them.  Line 70
\* is out of range for p < 0 or p >= 64, line 93 for a frame above 32, line
\* 112 for a tripod id above 64 (tripods.size() is the largest id).
BuildsSeenBy(p, idx) ==
  {b \in Builds :
     /\ (0 <= p /\ p < MaskBits) => b.prio = "wrap"
     /\ Len(idx) <= IntBits => b.test = "wrap"
     /\ Len(idx) <= MaskBits => b.item = "wrap"}

\* Optimize(its, p, bk) up to the first loop head
Entry(its, p, bk) ==
  /\ items = its
  /\ book0 = bk
  /\ tripods = BuildIndex(its)
  /\ prio_tripods = p
  /\ build \in BuildsSeenBy(p, BuildIndex(its))
  /\ book = bk
  /\ assignments = Start(its, bk, BuildIndex(its)).assignments
  /\ best_score = EmptyScore
  /\ out = <<>>

\* a catalog and a book, with a priority count between 0 and tripods.size()
Init ==
  \E its \in Catalogs, bk \in Books :
    \E p \in 0..IndexSize(its) : Entry(its, p, bk)

\* the same, with any int as the priority count: Optimize takes prio_tripods
\* as it is given
PrioInit ==
  \E its \in Catalogs, bk \in Books :
    \E p \in (0 - MaxPrioExcess)..(IndexSize(its) + MaxPrioExcess) : Entry(its, p, bk)

\* what the next pass of the loop as written (both prunes) finds
CurFrame == Frame(Cur, tripods, prio_tripods, TRUE, TRUE)

\* the branch the next pass takes
NextKind == Kind(CurFrame, tripods)

\* the rest of the pass, applied to the variables
Pass(f) ==
  /\ \E nxt \in {Finish(Cur, f, tripods, prio_tripods)} :
       /\ items' = nxt.items
       /\ book' = nxt.book
       /\ assignments' = nxt.assignments
       /\ best_score' = nxt.best_score
       /\ out' = nxt.out
  /\ UNCHANGED <<prio_tripods, book0, tripods, build>>

\* first visit, prev.score.tripods has the bit: goto pop
RedundancyPop ==
  /\ assignments # <<>>
  /\ \E f \in {CurFrame} : Kind(f, tripods) = "redundant" /\ Pass(f)

\* first visit past the priority tripods with one of them missing: goto pop
PriorityPop ==
  /\ assignments # <<>>
  /\ \E f \in {CurFrame} : Kind(f, tripods) = "priority" /\ Pass(f)

\* (undo, then) the do-while runs off the end of v: goto pop
ExhaustedPop ==
  /\ assignments # <<>>
  /\ \E f \in {CurFrame} : Kind(f, tripods) = "exhausted" /\ Pass(f)

\* (undo, then) an item is taken below the last tripod: resize
SelectPush ==
  /\ assignments # <<>>
  /\ \E f \in {CurFrame} : Kind(f, tripods) = "push" /\ Pass(f)

\* (undo, then) an item is taken for the last tripod and BetterThan holds
SelectImproved ==
  /\ assignments # <<>>
  /\ \E f \in {CurFrame} : Kind(f, tripods) = "complete" /\ Pass(f)
  /\ Len(out') = Len(out) + 1

\* (undo, then) an item is taken for the last tripod and BetterThan fails
SelectNotImproved ==
  /\ assignments # <<>>
  /\ \E f \in {CurFrame} : Kind(f, tripods) = "complete" /\ Pass(f)
  /\ out' = out

Next ==
  \/ RedundancyPop
  \/ PriorityPop
  \/ ExhaustedPop
  \/ SelectPush
  \/ SelectImproved
  \/ SelectNotImproved

Spec == Init /\ [][Next]_vars

\* the loop is sequential code: it keeps running until its condition fails
LiveSpec == Spec /\ WF_vars(Next)

\* a catalog with tripod ids around the width of int, no priority tripod or
\* tripod 1 as the only one
ShiftInit ==
  \E its \in HighCatalogs, bk \in HighBooks :
    \E p \in {q \in 0..IndexSize(its) : q <= 1} : Entry(its, p, bk)

\* the loop over such a catalog
ShiftSpec == ShiftInit /\ [][Next]_vars

\* the loop started with an unchecked priority count
PrioSpec == PrioInit /\ [][Next]_vars

Returned == assignments = <<>>

\* ---------------------------------------------------------------- runs
\* the loop run to its end from st, with the two prunes switched as given
RECURSIVE Run(_, _, _, _, _)
Run(st, idx, p, redundancy, priority) ==
  IF st.assignments = <<>> THEN st
  ELSE Run(Iterate(st, idx, p, redundancy, priority), idx, p, redundancy, priority)

\* ---------------------------------------------------------------- reference
\* the ordering the header comment and the specification state: more
\* high-priority tripods, then more tripods, then the lower cost
StatedKey(prio, total, cost) == <<prio, total, 0 - cost>>

StatedKeyOf(x) ==
  StatedKey(tripod_count(x, PrioMask(prio_tripods)), tripod_count(x, AllMask), x.cost)

RECURSIVE SumCost(_)
SumCost(S) ==
  IF S = {} THEN 0
  ELSE LET i == CHOOSE j \in S : TRUE IN items[i].cost + SumCost(S \ {i})

\* what a set S of item numbers (1-based) obtains and costs: the mask with
\* the bit of every non-zero slot of every item of S, as line 112 sets it (for
\* an id up to 64 the bit of the id itself), and the sum of the costs
SelectionScore(S) ==
  [tripods |-> UNION {ItemBit(items[i].tripods[sl]) :
                        <<i, sl>> \in {pr \in S \X (1..kTripods) :
                                         items[pr[1]].tripods[pr[2]] # 0}},
   cost |-> SumCost(S)]

InRow(S, r) == {i \in S : items[i].row = r}

\* the selections that fit the caller's book
FeasibleSelections ==
  {S \in SUBSET (1..Len(items)) :
     \A r \in 0..(kRows - 1) : Cardinality(InRow(S, r)) <= book0[r]}

AllPriorityObtainable ==
  \E S \in FeasibleSelections : PrioMask(prio_tripods) \subseteq SelectionScore(S).tripods

\* the key of the last solution written, or of the empty selection if none was
LastEmittedKey ==
  IF out = <<>> THEN StatedKey(0, 0, 0)
  ELSE StatedKey(Last(out).prio, Last(out).total, Last(out).cost)

Selected == {i \in 1..Len(items) : items[i].used}

\* ---------------------------------------------------------------- claims

\* C1: if some selection that fits the book covers all high-priority tripods,
\* then once Optimize has returned, no selection that fits the book has a
\* greater key (priority count, total count, -cost) than the last solution
\* written.
C1_LastEmittedIsOptimum ==
  (Returned /\ AllPriorityObtainable) =>
    \A S \in FeasibleSelections :
      ~TupleGreater(StatedKeyOf(SelectionScore(S)), LastEmittedKey)

\* C2: at every loop head, every row's remaining capacity is non-negative and
\* remaining capacity + used items of the row = the caller's capacity.
C2_CapacityInvariant ==
  \A r \in 0..(kRows - 1) :
    /\ book[r] >= 0
    /\ book[r] + Cardinality(InRow(Selected, r)) = book0[r]

\* a row is full while another item of that row is left unused
C2_Witness ==
  \E i \in Selected : \E j \in 1..Len(items) \ Selected :
    /\ items[i].row = items[j].row
    /\ book[items[i].row] = 0
    /\ book0[items[i].row] > 0

\* C3: of any two solutions written in one run, the later one has the strictly
\* greater key (priority count, total count, -cost), -cost being signed.
C3_EmittedStrictlyIncreasing ==
  \A i \in 1..Len(out) : \A j \in 1..Len(out) :
    i < j => TupleGreater(StatedKey(out[j].prio, out[j].total, out[j].cost),
                          StatedKey(out[i].prio, out[i].total, out[i].cost))

\* the item a frame holds, as an item number
FrameItem(k) == tripods[k][assignments[k].item + 1]

HoldingFrames == {k \in 1..Len(assignments) : assignments[k].item # -1}

\* C4: no item is held by two frames, the used items are exactly the items
\* the frames hold, and every solution written carries the union of the
\* tripods of the items listed with it and the sum of their costs.
C4_SelectionConsistency ==
  /\ \A j \in HoldingFrames : \A k \in HoldingFrames :
       j # k => FrameItem(j) # FrameItem(k)
  /\ Selected = {FrameItem(k) : k \in HoldingFrames}
  /\ \A n \in 1..Len(out) :
       LET S == {i + 1 : i \in out[n].items}
       IN  /\ out[n].tripods = SelectionScore(S).tripods
           /\ out[n].cost = SelectionScore(S).cost
           /\ out[n].total = Cardinality(SelectionScore(S).tripods)

\* a solution made of two items was written, one of them holding two tripods
C4_Witness ==
  \E n \in 1..Len(out) :
    /\ Cardinality(out[n].items) >= 2
    /\ \E i \in out[n].items :
         Cardinality({items[i + 1].tripods[s] : s \in 1..kTripods} \ {0}) >= 2

\* two runs end alike: both wrote nothing, or their best scores have the same
\* priority count, total count and cost
SameFinal(x, y) ==
  /\ (x.out = <<>>) = (y.out = <<>>)
  /\ tripod_count(x.best_score, PrioMask(prio_tripods))
       = tripod_count(y.best_score, PrioMask(prio_tripods))
  /\ tripod_count(x.best_score, AllMask) = tripod_count(y.best_score, AllMask)
  /\ x.best_score.cost = y.best_score.cost

\* C5: the run with the redundancy prune ends with the same best score as
\* the run of the same input without it.
C5_RedundancyPruneSound ==
  Returned =>
    SameFinal(Cur, Run(Start(items, book0, tripods), tripods, prio_tripods, FALSE, TRUE))

\* C6: when some selection that fits the book covers all high-priority
\* tripods, the run with the priority prune ends with the same best score as
\* the run of the same input without it.
C6_PriorityPruneSound ==
  (Returned /\ AllPriorityObtainable) =>
    SameFinal(Cur, Run(Start(items, book0, tripods), tripods, prio_tripods, TRUE, FALSE))

\* C7: every run reaches the empty stack, where Optimize returns.
C7_Terminates == <>Returned

\* the run has returned after taking items for two tripods and after a pop
\* of a frame that had nothing left to try
C7_Witness ==
  /\ Returned
  /\ Len(tripods) >= 2
  /\ out # <<>>
  /\ Cardinality(Last(out).items) >= 2

\* C8: BetterThan(a, b, prio_mask) holds exactly when a's key (priority
\* count, total count, -cost) with the signed -cost is greater than b's.
\* Stated of every comparison the loop makes: a is the score of the complete
\* assignment the next pass forms, b is best_score.
C8_BetterThanIsStatedOrder ==
  (assignments # <<>> /\ NextKind = "complete") =>
    LET a == Last(Iterate(Cur, tripods, prio_tripods, TRUE, TRUE).assignments).score
    IN  BetterThan(a, best_score, PrioMask(prio_tripods))
          = TupleGreater(StatedKeyOf(a), StatedKeyOf(best_score))

\* item i is the only item with high-priority tripod t and its row has no slot
ZeroCapacityCase(t, i) ==
  /\ t \in 1..prio_tripods
  /\ i \in 1..Len(items)
  /\ \A j \in 1..Len(items) :
       (t \in {items[j].tripods[s] : s \in 1..kTripods}) = (j = i)
  /\ book0[items[i].row] = 0

\* C9: when the only item with a high-priority tripod t sits in a row of
\* capacity 0, that item is never used, no solution written has t, the best
\* score has priority count 0 if t is the only priority tripod, and the run
\* returns.
C9_ZeroCapacity ==
  /\ [](\A t \in 1..MaskBits : \A i \in 1..Len(items) :
          ZeroCapacityCase(t, i) =>
            /\ ~items[i].used
            /\ \A n \in 1..Len(out) : t \notin out[n].tripods
            /\ t \notin best_score.tripods
            /\ prio_tripods = 1 =>
                 /\ tripod_count(best_score, PrioMask(prio_tripods)) = 0
                 /\ \A n \in 1..Len(out) : out[n].prio = 0)
  /\ ((\E t \in 1..MaskBits : \E i \in 1..Len(items) : ZeroCapacityCase(t, i))
        ~> Returned)

\* such a run has returned after writing a solution made of other items
C9_Witness ==
  /\ Returned
  /\ \E t \in 1..MaskBits : \E i \in 1..Len(items) : ZeroCapacityCase(t, i)
  /\ out # <<>>

\* C10: once Optimize has returned no item is used and the book is the
\* caller's again; and a pass that pops a frame leaves the item that frame
\* held unused.
C10_FullUndo ==
  /\ [](Returned => (Selected = {} /\ book = book0))
  /\ [][(Len(assignments') < Len(assignments)
           /\ assignments[Len(assignments)].item # -1)
          => ~items'[FrameItem(Len(assignments))].used]_vars

\* returned after at least two solutions were written
C10_Witness ==
  /\ Returned
  /\ Len(out) >= 2
  /\ Selected = {}

\* ---------------------------------------------------------------- C11
\* C11: whatever priority count is passed in, the priority mask that a pass of
\* the loop tests has no bit for a tripod id outside 1..tripods.size() (the
\* count is rejected or clamped into 0..tripods.size() first).
C11_PrioMaskInRange ==
  assignments # <<>> => PrioMask(prio_tripods) \subseteq 1..Len(tripods)

\* ---------------------------------------------------------------- C12
\* C12 as stated: a pass that takes an item in the frame of tripod k, k below
\* the last tripod, leaves the stack exactly one frame deeper, the new frame
\* k+1 carrying the score just computed.
C12_PushExactlyOne ==
  [][LET k == Len(assignments)
     IN  (k >= 1 /\ k < Len(tripods) /\ Len(assignments') >= k)
           => /\ Len(assignments') = k + 1
              /\ assignments'[k + 1] = [item |-> -1, score |-> assignments'[k].score]]_vars

\* C12 (amended): a pass that takes an item in the frame of tripod k, k below
\* the last tripod, pushes the frames of all the tripods k+1..tripods.size()
\* at once, each without an item and each carrying the score just computed;
\* the stack is then tripods.size() deep, the next pass is on the frame of the
\* last tripod, and the stack grows in no other pass and never beyond
\* tripods.size().
C12_PushAllRemaining ==
  /\ [](Len(assignments) <= Len(tripods))
  /\ [][LET k == Len(assignments)
        IN  /\ (k >= 1 /\ k < Len(tripods) /\ Len(assignments') >= k)
                 => /\ Len(assignments') = Len(tripods)
                    /\ assignments'[k].item # -1
                    /\ \A j \in (k + 1)..Len(tripods) :
                         assignments'[j] = [item |-> -1, score |-> assignments'[k].score]
            /\ Len(assignments') > k => (k >= 1 /\ k < Len(tripods))]_vars

\* two or more frames were pushed by one pass: frame k holds an item, the
\* frames above it, at least two, hold none and carry frame k's score
C12_Witness ==
  /\ Len(assignments) = Len(tripods)
  /\ \E k \in 1..(Len(assignments) - 2) :
       /\ assignments[k].item # -1
       /\ \A j \in (k + 1)..Len(assignments) :
            assignments[j] = [item |-> -1, score |-> assignments[k].score]

\* ---------------------------------------------------------------- C13
\* C13: a frame visited for the first time is popped by the redundancy prune
\* exactly when its own tripod is in the mask of the frame before it (bit
\* tripod - 1 of prev.score.tripods), for every tripod id up to 64.
C13_RedundancyBitTest ==
  (assignments # <<>> /\ Last(assignments).item = -1)
    => ((NextKind = "redundant") <=> (Len(assignments) \in CurFrame.prev.score.tripods))

\* ---------------------------------------------------------------- C14
\* C14: what one pass of the loop changes.  If the frame on top holds an item
\* (re-entry), that item, which was used, is unused again and its row gets one
\* slot back; nothing else is undone.  After that the pass either pops the
\* frame and changes no flag and no row, or takes exactly one item that was
\* not used and takes one slot from exactly that item's row.  So a pop of a
\* first-visited frame (either prune, or no candidate) changes no flag and no
\* row at all.  Row, cost and tripods of the items never change, and the best
\* score changes only in a pass that writes a solution, to that solution's
\* score.
C14_FrameEffect ==
  [][assignments # <<>> =>
       LET k       == Len(assignments)
           held    == IF assignments[k].item # -1 THEN {FrameItem(k)} ELSE {}
           mid     == UsedIn(items) \ held
           bookMid == [r \in 0..(kRows - 1) |->
                         book[r] + Cardinality({i \in held : items[i].row = r})]
       IN  /\ held \subseteq UsedIn(items)
           /\ \/ /\ Len(assignments') = k - 1
                 /\ UsedIn(items') = mid
                 /\ book' = bookMid
              \/ /\ Len(assignments') >= k
                 /\ \E n \in (1..Len(items)) \ mid :
                      /\ UsedIn(items') = mid \cup {n}
                      /\ book' = [bookMid EXCEPT ![items[n].row] = @ - 1]
           /\ Len(items') = Len(items)
           /\ \A i \in 1..Len(items) :
                [items'[i] EXCEPT !.used = FALSE] = [items[i] EXCEPT !.used = FALSE]
           /\ best_score' # best_score =>
                /\ Len(out') = Len(out) + 1
                /\ Last(out').tripods = best_score'.tripods
                /\ Last(out').cost = best_score'.cost]_vars

\* the frame of the last tripod was re-entered after a solution was written
\* and took another item: two solutions written, the frames below it never
\* held an item, and it is past its first candidate
C14_Witness ==
  /\ Len(out) >= 2
  /\ Len(tripods) >= 2
  /\ Len(assignments) = Len(tripods)
  /\ HoldingFrames = {Len(tripods)}
  /\ Last(assignments).item >= 1
  /\ \A j \in 1..(Len(tripods) - 1) : assignments[j] = NoAssignment

\* ---------------------------------------------------------------- C15
\* how many of the item's slots hold tripod t
SlotsHolding(it, t) == Cardinality({sl \in 1..kTripods : it.tripods[sl] = t})

\* how many times item number i is in the list v
Occurrences(v, i) == Cardinality({n \in 1..Len(v) : v[n] = i})

\* C15: the index has one list per tripod id up to the largest id of the
\* catalog; the list of t holds items of the catalog only, in catalog order,
\* each as many times as it has slots holding t (so an item that does not have
\* t, or has no tripod at all, is not in it); and at the first loop head no
\* item is used and the book is the caller's.
C15_IndexBuilt ==
  /\ Len(tripods) = IndexSize(items)
  /\ \A t \in 1..Len(tripods) :
       /\ \A n \in 1..Len(tripods[t]) : tripods[t][n] \in 1..Len(items)
       /\ \A n \in 1..(Len(tripods[t]) - 1) : tripods[t][n] <= tripods[t][n + 1]
       /\ \A i \in 1..Len(items) :
            Occurrences(tripods[t], i) = SlotsHolding(items[i], t)
  /\ assignments = Start(items, book0, tripods).assignments
       => (UsedIn(items) = {} /\ book = book0)

\* an item with the same tripod in two slots is twice in that tripod's list,
\* ahead of a later item with the tripod, and a tripod below the largest id
\* that no item has got an empty list
C15_Witness ==
  /\ Len(items) = 2
  /\ Len(tripods) = 3
  /\ tripods[1] = <<>>
  /\ tripods[2] = <<1, 1, 2>>
  /\ tripods[3] = <<2>>

\* ---------------------------------------------------------------- C16
\* C16: the best score changes, and a solution is written, only in a pass on
\* the frame of the last tripod that leaves that frame holding an item of the
\* last tripod's list which was not used before the pass; and every solution
\* written has the last tripod in its mask and an item of the last tripod's
\* list among its items.
C16_ComparedOnlyAtLastFrame ==
  /\ [](\A n \in 1..Len(out) :
         /\ Len(tripods) \in out[n].tripods
         /\ \E m \in 1..Len(Last(tripods)) : (Last(tripods)[m] - 1) \in out[n].items)
  /\ [][(best_score' # best_score \/ out' # out) =>
          LET T    == Len(tripods)
              held == IF Last(assignments).item # -1 THEN {FrameItem(T)} ELSE {}
          IN  /\ Len(assignments) = T
              /\ Len(assignments') = T
              /\ assignments'[T].item # -1
              /\ tripods[T][assignments'[T].item + 1] \in UsedIn(items') \ (UsedIn(items) \ held)
              /\ T \in best_score'.tripods]_vars

\* a solution has just been written with the frame of the last tripod and a
\* frame below it both holding an item
C16_Witness ==
  /\ out # <<>>
  /\ Len(assignments) = Len(tripods)
  /\ Last(assignments).item # -1
  /\ best_score = Last(assignments).score
  /\ Last(out).items = UsedItems(items)
  /\ \E k \in 1..(Len(tripods) - 1) : assignments[k].item # -1

\* ---------------------------------------------------------------- C17
\* C17: with a priority count above 0 and below tripods.size(), every
\* solution written has all the priority tripods (its priority count is the
\* count passed in); so when no selection that the book allows has all of
\* them, nothing is written.
C17_EmittedCoverPriority ==
  (0 < prio_tripods /\ prio_tripods < Len(tripods)) =>
     /\ \A n \in 1..Len(out) :
          /\ out[n].prio = prio_tripods
          /\ PrioMask(prio_tripods) \subseteq out[n].tripods
     /\ ~AllPriorityObtainable => out = <<>>

\* the run has returned without writing anything, no allowed selection has
\* all the priority tripods, and yet an allowed selection exists that has the
\* last tripod through an item of the last tripod's list
C17_Witness ==
  /\ Returned
  /\ 0 < prio_tripods
  /\ prio_tripods < Len(tripods)
  /\ ~AllPriorityObtainable
  /\ out = <<>>
  /\ \E S \in FeasibleSelections :
       \E i \in S : \E m \in 1..Len(Last(tripods)) : Last(tripods)[m] = i

\* ---------------------------------------------------------------- C18
\* the items held by the frames 1..j
HeldUpTo(j) == {FrameItem(k) : k \in {h \in HoldingFrames : h <= j}}

\* C18: at every loop head the score of every frame j on the stack is the
\* union of the tripods and the sum of the costs of the items held by the
\* frames 1..j; and a frame without an item carries the score of the frame
\* before it (the empty score for frame 1), so both prunes of a first visit
\* read the same mask.
C18_ScoreSnapshots ==
  \A j \in 1..Len(assignments) :
    /\ assignments[j].score = SelectionScore(HeldUpTo(j))
    /\ assignments[j].item = -1 =>
         assignments[j].score = (IF j > 1 THEN assignments[j - 1].score ELSE EmptyScore)

\* a first visit is due on a frame seeded with a score that is not empty,
\* made of the items of two frames below it
C18_Witness ==
  /\ assignments # <<>>
  /\ Last(assignments).item = -1
  /\ Cardinality(HeldUpTo(Len(assignments))) = 2
  /\ Last(assignments).score.tripods # {}
  /\ Last(assignments).score.cost > 0

====
